---------------------------- MODULE Spec2Model ----------------------------
(***************************************************************************)
(* Model of VideoTranscriber.transcribe_video (src/transcriber.py): the    *)
(* request builder (sampling-rate check, video reference, prompt), the     *)
(* retrying invoker (tenacity.Retrying as configured by get_retrier) and   *)
(* the response interpreter (_parse_response); of the aggregate and its    *)
(* lookups and JSON form (src/models.py); of main() (src/main.py); and of  *)
(* two sessions of the web application (src/app.py).  Each part has its    *)
(* own specification over the same variables.                              *)
(*                                                                         *)
(* Encodings.  An optional value is a sequence of length at most one:      *)
(* None is <<>> and a present value v is <<v>>.  A sampling rate is an     *)
(* integer number of tenths of a frame per second.  A duration (timedelta) *)
(* is an integer number of half hours.  A URI and an error message are     *)
(* strings, modelled as sequences of chunks, so that startswith,           *)
(* removeprefix, concatenation and "in" are computed as on strings.        *)
(***************************************************************************)
EXTENDS Integers, Sequences, FiniteSets, TLC

VARIABLES
    vertexai,        \* self.client.vertexai: TRUE on the enterprise backend
    video_uri,       \* argument video_uri
    start_offset,    \* argument start_offset (optional duration)
    end_offset,      \* argument end_offset (optional duration)
    fps,             \* argument fps (optional sampling rate, in tenths)
    custom_prompt,   \* argument custom_prompt (optional string)
    pc,              \* position inside transcribe_video
    video_part,      \* local video_part (optional Part)
    video_duration,  \* the duration handed to get_timecode_format
    timecode_format, \* local timecode_format (optional string)
    prompt,          \* local prompt, as sent in contents
    attempt_number,  \* RetryCallState.attempt_number
    outcome,         \* RetryCallState.outcome of the latest attempt
    sleep,           \* the delay of the DoSleep being served, in seconds
    slept,           \* total seconds slept between attempts
    calls,           \* number of generate_content calls started
    waits,           \* number of sleeps performed
    response,        \* local response
    result,          \* how the invocation ended
    interrupted,     \* a KeyboardInterrupt has been delivered to the invocation
    transcription,   \* a VideoTranscription held by a consumer
    last,            \* the latest operation applied to it, with its value
    argv,            \* the parsed command line of main()
    config,          \* the Config class attributes, read from the environment
    main_pc,         \* position inside main()
    exit_code,       \* the exit code of the process (optional)
    environ,         \* os.environ, one per process
    sessions,        \* the web requests in progress, one per session
    transcriber      \* local transcriber of main(): how VideoTranscriber() ended

vars == <<vertexai, video_uri, start_offset, end_offset, fps, custom_prompt, pc,
          video_part, video_duration, timecode_format, prompt, attempt_number, outcome, sleep, slept, calls,
          waits, response, result, interrupted, transcription, last, argv, config,
          main_pc, exit_code, environ, sessions, transcriber>>

-----------------------------------------------------------------------------
(* Bounds of the explored inputs. *)

MaxUriLen == 2
FpsMargin == 1
MaxOffset == 4
MaxSegments == 2
MaxSpeakers == 2

(* Program constants. *)

MIN_FPS == 1
MAX_FPS == 240
DEFAULT_FPS == 10
Hour == 2
MaxAttempts == 7
WaitStart == 10
WaitIncrement == 1
DEFAULT_TIMECODE_FORMAT == "MM:SS"
NOT_FOUND_MARKER == "?"
EXTENDED_TIMECODE_FORMAT == "H:MM:SS"

-----------------------------------------------------------------------------
(* Optional values and Python truthiness. *)

None == <<>>
Some(v) == <<v>>
IsNone(o) == o = <<>>
Val(o) == o[1]

\* bool(x) of an optional number (int, float or timedelta): None and zero are falsy
TruthyNum(o) == o # None /\ Val(o) # 0
\* bool(x) of an optional string: None and the empty string are falsy
TruthyStr(o) == o # None /\ Val(o) # <<>>

\* All sequences over S of length at most n
SeqUpTo(S, n) == UNION {[1..k -> S] : k \in 0..n}

-----------------------------------------------------------------------------
(* Strings as sequences of chunks. *)

StartsWith(s, p) == Len(s) >= Len(p) /\ SubSeq(s, 1, Len(p)) = p
RemovePrefix(s, p) == IF StartsWith(s, p) THEN SubSeq(s, Len(p) + 1, Len(s)) ELSE s
Contains(s, chunk) == \E i \in 1..Len(s) : s[i] = chunk

GsPrefix == <<"gs://">>
HttpsPrefix == <<"https://">>
YouTubePrefix == <<"https://", "www.youtube.com/watch?v=">>
StoragePrefix == <<"https://", "storage.googleapis.com/">>

UriChunks == {"gs://", "https://", "www.youtube.com/watch?v=", "x"}
URIs == SeqUpTo(UriChunks, MaxUriLen)


-----------------------------------------------------------------------------
(* Request builder. *)

\* timedelta.total_seconds() of a duration counted in half hours
TotalSeconds(d) == d * 1800

\* mutant: the conversion is made on either backend
convert_uri_any_backend(vx, uri) ==
    IF StartsWith(uri, GsPrefix)
    THEN StoragePrefix \o RemovePrefix(uri, GsPrefix)
    ELSE uri

\* get_video_part, line 89-90: the Cloud Storage URI becomes an HTTPS URL on
\* the lightweight backend
ConvertUri(vx, uri) ==
    IF ~vx /\ StartsWith(uri, GsPrefix)
    THEN StoragePrefix \o RemovePrefix(uri, GsPrefix)
    ELSE uri

\* mutant: any HTTPS URL passes the capability check
unsupported_unless_https(vx, uri) == ~vx /\ ~StartsWith(uri, HttpsPrefix)

\* get_video_part, line 93: the capability check on the converted URI
Unsupported(vx, uri) == ~vx /\ ~StartsWith(uri, YouTubePrefix)

\* get_video_part, line 99-106: VideoMetadata, a field is set when its
\* argument is truthy
VideoMetadata(start, end, f) ==
    [start_offset |-> IF TruthyNum(start) THEN Some(TotalSeconds(Val(start))) ELSE None,
     end_offset   |-> IF TruthyNum(end) THEN Some(TotalSeconds(Val(end))) ELSE None,
     fps          |-> IF TruthyNum(f) THEN f ELSE None]

\* get_video_part: the optional Part
get_video_part(vx, uri, start, end, f) ==
    LET converted == ConvertUri(vx, uri) IN
    IF Unsupported(vx, converted)
    THEN None
    ELSE Some([file_data |-> [file_uri |-> converted, mime_type |-> "video/*"],
               video_metadata |-> VideoMetadata(start, end, f)])

\* transcribe_video, line 200: the sampling-rate check
InvalidFps(f) == TruthyNum(f) /\ (Val(f) < MIN_FPS \/ Val(f) > MAX_FPS)

\* mutant: exactly one hour still gets the default format
get_timecode_format_over_hour(duration) ==
    IF TruthyNum(duration) /\ Val(duration) > Hour
    THEN EXTENDED_TIMECODE_FORMAT
    ELSE DEFAULT_TIMECODE_FORMAT

\* get_timecode_format
get_timecode_format(duration) ==
    IF TruthyNum(duration) /\ Val(duration) >= Hour
    THEN EXTENDED_TIMECODE_FORMAT
    ELSE DEFAULT_TIMECODE_FORMAT

\* transcribe_video, line 212: the duration handed to get_timecode_format
EffectiveDuration(start, end) ==
    IF TruthyNum(start) /\ TruthyNum(end)
    THEN Some(Val(end) - Val(start))
    ELSE None

\* get_transcription_prompt: the text around the embedded timecode format
get_transcription_prompt(format) ==
    <<"\n", "**Task 1 - Script Segments** ... timecodes (", format,
      ") ... **Task 2 - Speakers** ...", "\n">>

Whitespace == {" ", "\n"}

\* str.strip()
RECURSIVE LStrip(_)
LStrip(s) == IF s # <<>> /\ Head(s) \in Whitespace THEN LStrip(Tail(s)) ELSE s
RECURSIVE RStrip(_)
RStrip(s) ==
    IF s # <<>> /\ s[Len(s)] \in Whitespace THEN RStrip(SubSeq(s, 1, Len(s) - 1)) ELSE s
Strip(s) == RStrip(LStrip(s))

-----------------------------------------------------------------------------
(* Data model. *)

\* VideoTranscription(...): the fields not named are at their defaults
Transcription(segments, speakers, nsegments, nspeakers) ==
    [script_segments |-> segments, speakers |-> speakers, translation_table |-> <<>>,
     video_duration |-> None, total_segments |-> nsegments,
     total_speakers |-> nspeakers, language_detected |-> None]

\* VideoTranscription(): every field at its default
EmptyTranscription == Transcription(<<>>, <<>>, 0, 0)

\* mutant: the counts the model embedded are kept
keep_embedded_counts(t) == t

\* VideoTranscription.update_counts
update_counts(t) ==
    [t EXCEPT !.total_segments = Len(t.script_segments),
              !.total_speakers = Len(t.speakers)]

\* mutant: only the presence of the payload is checked, not its type
parse_response_unchecked(resp) ==
    IF resp.parsed.type = "NoneType"
    THEN EmptyTranscription
    ELSE update_counts(resp.parsed.value)

\* _parse_response: parsed is a record [type, value]
_parse_response(resp) ==
    IF resp.parsed.type # "VideoTranscription"
    THEN EmptyTranscription
    ELSE update_counts(resp.parsed.value)

-----------------------------------------------------------------------------
(* Retry policy: tenacity.Retrying(stop_after_attempt(7),                  *)
(* wait_incrementing(start=10, increment=1), retry=_should_retry_request,  *)
(* reraise=True).                                                          *)

\* mutant: a 400 is retried whatever its message says
should_retry_any_400(exc) ==
    exc # None /\ Val(exc).class = "ClientError" /\ Val(exc).code \in {400, 429}

\* mutant: every exception of an attempt is retried
should_retry_any_exception(exc) == exc # None

\* _should_retry_request applied to the exception of the outcome (None when
\* the attempt returned)
_should_retry_request(exc) ==
    IF exc = None \/ Val(exc).class # "ClientError"
    THEN FALSE
    ELSE LET err == Val(exc) IN
         IF err.code = 400 /\ TruthyStr(err.message)
                /\ Contains(Val(err.message), " try again ")
         THEN TRUE
         ELSE err.code = 429

\* mutant: the stop test is off by one
stop_after_attempt_late(n) == n > MaxAttempts

\* mutant: the retrier never gives up
stop_never(n) == FALSE

\* tenacity.stop_after_attempt(7)
stop_after_attempt(n) == n >= MaxAttempts

\* mutant: the delay does not grow
wait_fixed(n) == WaitStart

\* tenacity.wait_incrementing(start=10, increment=1)
wait_incrementing(n) ==
    LET w == WaitStart + WaitIncrement * (n - 1) IN IF w < 0 THEN 0 ELSE w

-----------------------------------------------------------------------------
(* The remote service: what one generate_content call can do. *)

Messages ==
    {None, Some(<<>>), Some(<<"try again">>), Some(<<"Please", " try again ", "later">>)}

\* google.genai.errors.ClientError(code, message)
ClientError(code, message) == [class |-> "ClientError", code |-> code, message |-> message]

\* exceptions that are not a ClientError: a ServerError and one raised below
\* the SDK (it carries no code, written 0)
OtherErrors ==
    {[class |-> "ServerError", code |-> 503,
      message |-> Some(<<"Please", " try again ", "later">>)],
     [class |-> "ConnectionError", code |-> 0, message |-> None]}

Errors == {ClientError(c, m) : c \in {400, 403, 429}, m \in Messages} \cup OtherErrors

\* the ValueError of the sampling-rate check
FpsError ==
    [class |-> "ValueError", code |-> 0, message |-> Some(<<"FPS must be between">>)]

\* tenacity.RetryError, raised with reraise=True only when the last attempt
\* did not fail
RetryError == [class |-> "RetryError", code |-> 0, message |-> None]

\* TranscriptSegment(...) with an optional emotion; tone, energy_level and
\* speech_rate are at their default
SegmentWith(v, emotion) ==
    [start_time |-> "00:01", end_time |-> "00:02", text |-> "t", voice_id |-> v,
     emotion |-> emotion, tone |-> None, energy_level |-> None, speech_rate |-> None]
Segment(v) == SegmentWith(v, None)
\* Speaker(...): a speaker whose name was found has a company and a position,
\* one whose name was not found has the marker in every field
Speaker(v, name) ==
    [voice_id |-> v, name |-> name,
     company |-> IF name = "?" THEN "?" ELSE "Acme",
     position |-> IF name = "?" THEN "?" ELSE "CEO",
     role_in_video |-> "?"]

\* response.parsed: a VideoTranscription as the model emitted it (its counts
\* are the model's own), or a value of another type: None, or a dict that
\* was not validated against the schema
Parsed ==
    {[type |-> "NoneType"],
     [type |-> "dict",
      value |-> Transcription(<<Segment(1)>>, <<Speaker(1, "Jane")>>, 1, 1)]}
    \cup {[type |-> "VideoTranscription", value |-> t] :
            t \in {Transcription(<<>>, <<>>, 0, 0),
                   Transcription(<<Segment(1)>>, <<Speaker(1, "Jane"), Speaker(2, "?")>>, 1, 2),
                   Transcription(<<Segment(1), Segment(2)>>, <<Speaker(1, "Jane")>>, 99, 0),
                   Transcription(<<Segment(1), Segment(2), Segment(1)>>,
                                 <<Speaker(1, "Jane"), Speaker(2, "?")>>, 99, 7)}}

\* what _display_response_info reads from a response: whether it has usage
\* counters, candidates and output text, and the finish reason of its first
\* candidate ("" without one)
Diagnostics ==
    {[usage_metadata |-> TRUE, candidates |-> TRUE, finish_reason |-> "STOP", text |-> TRUE],
     [usage_metadata |-> TRUE, candidates |-> TRUE, finish_reason |-> "MAX_TOKENS",
      text |-> TRUE],
     [usage_metadata |-> TRUE, candidates |-> TRUE, finish_reason |-> "STOP", text |-> FALSE],
     [usage_metadata |-> FALSE, candidates |-> FALSE, finish_reason |-> "", text |-> FALSE]}

\* _display_response_info: the lines it prints; it raises nothing
_display_response_info(info) ==
    (IF info.usage_metadata THEN <<"Input tokens", "Output tokens">> ELSE <<>>)
    \o (IF ~info.candidates THEN <<"No response.candidates">>
        ELSE (IF info.finish_reason # "STOP" THEN <<"finish_reason">> ELSE <<>>)
             \o (IF ~info.text THEN <<"No response.text">> ELSE <<>>))

-----------------------------------------------------------------------------
(* Inputs. *)

FpsTenths ==
    ((0 - FpsMargin)..(MIN_FPS + FpsMargin))
    \cup ((MAX_FPS - FpsMargin)..(MAX_FPS + FpsMargin)) \cup {DEFAULT_FPS}
FpsValues == {None} \cup {Some(f) : f \in FpsTenths}

StartOffsets == {None} \cup {Some(d) : d \in 0..MaxOffset}
EndOffsets == {None} \cup {Some(d) : d \in (0 - 1)..MaxOffset}

Prompts == {None, Some(<<>>), Some(<<"custom">>), Some(<<" ", "custom", "\n">>)}

Pending == [kind |-> "pending"]
Returned(t) == [kind |-> "returned", value |-> t]
Raised(e) == [kind |-> "raised", error |-> e]

\* no consumer, no command line and no web session: transcribe_video is
\* called directly and is not interrupted
NoConsumer == transcription = None /\ last = None
NoMain ==
    /\ argv = None /\ config = None /\ main_pc = "off" /\ exit_code = None
    /\ transcriber = None
NoSessions == environ = None /\ sessions = <<>>
Direct == interrupted = FALSE /\ NoConsumer /\ NoMain /\ NoSessions

\* the locals of transcribe_video before its first statement
Locals ==
    /\ video_part = None
    /\ video_duration = None
    /\ timecode_format = None
    /\ prompt = None
    /\ attempt_number = 0
    /\ outcome = None
    /\ sleep = 0
    /\ slept = 0
    /\ calls = 0
    /\ waits = 0
    /\ response = None
    /\ result = Pending

\* transcribe_video is entered
Entry == pc = "validate" /\ Locals

\* any backend, any video reference, any sampling rate; no window, default prompt
Init ==
    /\ vertexai \in BOOLEAN
    /\ video_uri \in URIs
    /\ fps \in FpsValues
    /\ start_offset = None
    /\ end_offset = None
    /\ custom_prompt = None
    /\ Entry
    /\ Direct

\* a YouTube reference on any backend, any window, any prompt
InitWindow ==
    /\ vertexai \in BOOLEAN
    /\ video_uri = YouTubePrefix \o <<"x">>
    /\ fps \in {None, Some(DEFAULT_FPS)}
    /\ start_offset \in StartOffsets
    /\ end_offset \in EndOffsets
    /\ custom_prompt \in Prompts
    /\ Entry
    /\ Direct

-----------------------------------------------------------------------------
(* transcribe_video. *)

args == <<vertexai, video_uri, start_offset, end_offset, fps, custom_prompt>>
request == <<video_part, video_duration, timecode_format, prompt>>
retry_state == <<attempt_number, outcome, sleep, slept, calls, waits>>

\* the state outside an invocation of transcribe_video
consumer == <<transcription, last>>
cli == <<argv, config, main_pc, exit_code, transcriber>>
shared == <<environ, sessions>>
outside == <<consumer, cli, shared>>

\* line 199-201: validate FPS
ValidateFps ==
    /\ pc = "validate"
    /\ IF InvalidFps(fps)
       THEN pc' = "done" /\ result' = Raised(FpsError)
       ELSE pc' = "video_part" /\ result' = result
    /\ UNCHANGED <<interrupted, outside>>
    /\ UNCHANGED <<args, request, retry_state, response>>

\* mutant: the missing video part is not checked
GetVideoPartUnchecked ==
    /\ pc = "video_part"
    /\ video_part' = get_video_part(vertexai, video_uri, start_offset, end_offset, fps)
    /\ pc' = "contents"
    /\ UNCHANGED <<interrupted, outside>>
    /\ UNCHANGED <<args, video_duration, timecode_format, prompt, retry_state, response,
                   result>>

\* line 203-206: get the video part, return an empty transcription without one
GetVideoPart ==
    /\ pc = "video_part"
    /\ video_part' = get_video_part(vertexai, video_uri, start_offset, end_offset, fps)
    /\ IF video_part' = None
       THEN pc' = "done" /\ result' = Returned(EmptyTranscription)
       ELSE pc' = "contents" /\ result' = result
    /\ UNCHANGED <<interrupted, outside>>
    /\ UNCHANGED <<args, video_duration, timecode_format, prompt, retry_state, response>>

\* line 208-225: the prompt, contents, response = None and the retrier, whose
\* first iteration yields attempt 1
PrepareContents ==
    /\ pc = "contents"
    /\ IF TruthyStr(custom_prompt)
       THEN /\ prompt' = Some(Strip(Val(custom_prompt)))
            /\ UNCHANGED <<video_duration, timecode_format>>
       ELSE /\ video_duration' = EffectiveDuration(start_offset, end_offset)
            /\ timecode_format' = Some(get_timecode_format(video_duration'))
            /\ prompt' = Some(Strip(get_transcription_prompt(Val(timecode_format'))))
    /\ response' = None
    /\ attempt_number' = 1
    /\ pc' = "attempt"
    /\ UNCHANGED <<interrupted, outside>>
    /\ UNCHANGED <<args, video_part, outcome, sleep, slept, calls, waits, result>>

\* line 227: generate_content is called
StartCall ==
    /\ pc = "attempt"
    /\ calls' = calls + 1
    /\ pc' = "in_flight"
    /\ UNCHANGED <<interrupted, outside>>
    /\ UNCHANGED <<args, request, attempt_number, outcome, sleep, slept, waits,
                   response, result>>

\* mutant: reraise=False, the library's wrapper is raised
raise_retry_error(failed, exc) == RetryError

\* reraise=True: what is raised when the attempts are exhausted, the exception
\* of the last attempt when it failed
reraise(failed, exc) == IF failed THEN Val(exc) ELSE RetryError

\* mutant: the attempt's context manager swallows an error that is not
\* retried, and the loop is left as after a success
AfterAttemptSwallowing(n, failed, exc) ==
    IF ~_should_retry_request(exc)
    THEN /\ pc' = "parse" /\ result' = result
         /\ UNCHANGED <<attempt_number, sleep>>
    ELSE IF stop_after_attempt(n)
    THEN /\ pc' = "done"
         /\ result' = Raised(reraise(failed, exc))
         /\ UNCHANGED <<attempt_number, sleep>>
    ELSE /\ sleep' = wait_incrementing(n)
         /\ attempt_number' = n + 1
         /\ pc' = "sleep"
         /\ result' = result

\* Retrying.iter on the outcome of attempt n: stop retrying and hand the
\* outcome over, give up after the last attempt (reraise=True), or sleep
AfterAttempt(n, failed, exc) ==
    IF ~_should_retry_request(exc)
    THEN /\ IF failed
            THEN pc' = "done" /\ result' = Raised(Val(exc))
            ELSE pc' = "parse" /\ result' = result
         /\ UNCHANGED <<attempt_number, sleep>>
    ELSE IF stop_after_attempt(n)
    THEN /\ pc' = "done"
         /\ result' = Raised(reraise(failed, exc))
         /\ UNCHANGED <<attempt_number, sleep>>
    ELSE /\ sleep' = wait_incrementing(n)
         /\ attempt_number' = n + 1
         /\ pc' = "sleep"
         /\ result' = result

\* mutant: a response whose diagnostics print a complaint fails the attempt
CallReturnsChecked(parsed, info) ==
    /\ pc = "in_flight"
    /\ response' = Some([attempt |-> attempt_number, parsed |-> parsed, info |-> info,
                         printed |-> _display_response_info(info)])
    /\ IF Len(Val(response').printed) > 2 \/ ~info.usage_metadata
       THEN LET bad == [class |-> "ValueError", code |-> 0,
                        message |-> Some(<<"bad response">>)]
            IN /\ outcome' = Some([failed |-> TRUE, exception |-> Some(bad)])
               /\ AfterAttempt(attempt_number, TRUE, Some(bad))
       ELSE /\ outcome' = Some([failed |-> FALSE, exception |-> None])
            /\ AfterAttempt(attempt_number, FALSE, None)
    /\ UNCHANGED <<interrupted, outside>>
    /\ UNCHANGED <<args, request, slept, calls, waits>>

\* line 227-232: the call returns a response, its diagnostics are printed
CallReturns(parsed, info) ==
    /\ pc = "in_flight"
    /\ response' = Some([attempt |-> attempt_number, parsed |-> parsed, info |-> info,
                         printed |-> _display_response_info(info)])
    /\ outcome' = Some([failed |-> FALSE, exception |-> None])
    /\ AfterAttempt(attempt_number, FALSE, None)
    /\ UNCHANGED <<interrupted, outside>>
    /\ UNCHANGED <<args, request, slept, calls, waits>>

\* line 227: the call raises
CallRaises(err) ==
    /\ pc = "in_flight"
    /\ outcome' = Some([failed |-> TRUE, exception |-> Some(err)])
    /\ AfterAttempt(attempt_number, TRUE, Some(err))
    /\ UNCHANGED <<interrupted, outside>>
    /\ UNCHANGED <<args, request, slept, calls, waits, response>>

\* mutant: the next attempt follows without the delay being waited out
SleepCutShort ==
    /\ pc = "sleep"
    /\ waits' = waits + 1
    /\ pc' = "attempt"
    /\ UNCHANGED <<interrupted, outside>>
    /\ UNCHANGED <<args, request, attempt_number, outcome, sleep, slept, calls, response,
                   result>>

\* Retrying.__iter__: the DoSleep is served, the next attempt follows
Sleep ==
    /\ pc = "sleep"
    /\ slept' = slept + sleep
    /\ waits' = waits + 1
    /\ pc' = "attempt"
    /\ UNCHANGED <<interrupted, outside>>
    /\ UNCHANGED <<args, request, attempt_number, outcome, sleep, calls, response,
                   result>>

\* line 235: parse the response
ParseResponse ==
    /\ pc = "parse"
    /\ result' = Returned(_parse_response(Val(response)))
    /\ pc' = "done"
    /\ UNCHANGED <<interrupted, outside>>
    /\ UNCHANGED <<args, request, retry_state, response>>

Next ==
    \/ ValidateFps
    \/ GetVideoPart
    \/ PrepareContents
    \/ StartCall
    \/ \E parsed \in Parsed, info \in Diagnostics : CallReturns(parsed, info)
    \/ \E err \in Errors : CallRaises(err)
    \/ Sleep
    \/ ParseResponse

Spec == Init /\ [][Next]_vars
SpecWindow == InitWindow /\ [][Next]_vars

\* every remote call returns or raises, every sleep ends and the calling
\* thread keeps running
SpecLive == Init /\ [][Next]_vars /\ WF_vars(Next)

-----------------------------------------------------------------------------
(* transcribe_youtube_video: transcribe_video on the URL built from a      *)
(* YouTube identifier, every other argument at its default.                *)

\* mutant: the short form of a YouTube link is built
youtube_url_short(youtube_id) == <<"https://", "youtu.be/">> \o youtube_id

\* line 275: f"https://www.youtube.com/watch?v={youtube_id}"
youtube_url(youtube_id) == YouTubePrefix \o youtube_id

YouTubeIds == SeqUpTo(UriChunks, MaxUriLen)

InitYouTube ==
    /\ vertexai \in BOOLEAN
    /\ \E youtube_id \in YouTubeIds : video_uri = youtube_url(youtube_id)
    /\ fps = None
    /\ start_offset = None
    /\ end_offset = None
    /\ custom_prompt = None
    /\ Entry
    /\ Direct

SpecYouTube == InitYouTube /\ [][Next]_vars

-----------------------------------------------------------------------------
(* A user interrupt (KeyboardInterrupt) delivered while transcribe_video   *)
(* waits for the remote call or sleeps between attempts.                   *)

KeyboardInterrupt == [class |-> "KeyboardInterrupt", code |-> 0, message |-> None]

\* the interrupt is raised inside generate_content: the attempt context
\* manager records it as the outcome of the attempt and Retrying.iter
\* decides on it as on any exception
InterruptCall ==
    /\ pc = "in_flight"
    /\ interrupted' = TRUE
    /\ outcome' = Some([failed |-> TRUE, exception |-> Some(KeyboardInterrupt)])
    /\ AfterAttempt(attempt_number, TRUE, Some(KeyboardInterrupt))
    /\ UNCHANGED <<args, request, slept, calls, waits, response, outside>>

\* the interrupt is raised inside the sleep of Retrying.__iter__, outside
\* any attempt: it leaves the for loop of transcribe_video
InterruptSleep ==
    /\ pc = "sleep"
    /\ interrupted' = TRUE
    /\ pc' = "done"
    /\ result' = Raised(KeyboardInterrupt)
    /\ UNCHANGED <<args, request, retry_state, response, outside>>

NextInterrupt ==
    \/ Next
    \/ InterruptCall
    \/ InterruptSleep

SpecInterrupt == Init /\ [][NextInterrupt]_vars

-----------------------------------------------------------------------------
(* The aggregate and its lookups (src/models.py), applied by a consumer    *)
(* that holds a VideoTranscription.                                        *)

\* the for loop of get_speaker_by_voice_id
RECURSIVE FirstWithVoice(_, _)
FirstWithVoice(speakers, v) ==
    IF speakers = <<>> THEN None
    ELSE IF Head(speakers).voice_id = v THEN Some(Head(speakers))
    ELSE FirstWithVoice(Tail(speakers), v)

\* the loop of a dict comprehension keyed by voice_id
RECURSIVE LastWithVoice(_, _)
LastWithVoice(speakers, v) ==
    IF speakers = <<>> THEN None
    ELSE IF speakers[Len(speakers)].voice_id = v THEN Some(speakers[Len(speakers)])
    ELSE LastWithVoice(SubSeq(speakers, 1, Len(speakers) - 1), v)

\* mutant: the latest speaker with the voice wins
get_speaker_latest(t, v) == LastWithVoice(t.speakers, v)

\* VideoTranscription.get_speaker_by_voice_id
get_speaker_by_voice_id(t, v) == FirstWithVoice(t.speakers, v)

\* the first for loop of get_segments_by_speaker, with its break
RECURSIVE FirstWithName(_, _)
FirstWithName(speakers, name) ==
    IF speakers = <<>> THEN None
    ELSE IF Head(speakers).name = name THEN Some(Head(speakers))
    ELSE FirstWithName(Tail(speakers), name)

\* the second for loop of get_segments_by_speaker
RECURSIVE SegmentsWithVoice(_, _)
SegmentsWithVoice(segments, v) ==
    IF segments = <<>> THEN <<>>
    ELSE (IF Head(segments).voice_id = v THEN <<Head(segments)>> ELSE <<>>)
         \o SegmentsWithVoice(Tail(segments), v)

\* the segments of every speaker with the name
RECURSIVE SegmentsOfNamesakes(_, _, _)
SegmentsOfNamesakes(segments, speakers, name) ==
    IF segments = <<>> THEN <<>>
    ELSE (IF \E i \in 1..Len(speakers) :
                /\ speakers[i].name = name
                /\ speakers[i].voice_id = Head(segments).voice_id
          THEN <<Head(segments)>> ELSE <<>>)
         \o SegmentsOfNamesakes(Tail(segments), speakers, name)

\* mutant: the segments of every speaker with the name are returned
segments_of_every_namesake(t, name) ==
    SegmentsOfNamesakes(t.script_segments, t.speakers, name)

\* VideoTranscription.get_segments_by_speaker
get_segments_by_speaker(t, name) ==
    LET speaker == FirstWithName(t.speakers, name) IN
    IF speaker # None
    THEN SegmentsWithVoice(t.script_segments, Val(speaker).voice_id)
    ELSE <<>>

-----------------------------------------------------------------------------
(* The external JSON form: json.dump(transcription.model_dump()) as in     *)
(* main(), and its validation against the schema of src/models.py.  A JSON *)
(* value is tagged with its JSON type.                                     *)

JNull == [j |-> "null"]
JString(s) == [j |-> "string", v |-> s]
JNumber(n) == [j |-> "number", v |-> n]
JArray(a) == [j |-> "array", v |-> a]
JObject(o) == [j |-> "object", v |-> o]

\* mutant: an absent optional string is written as an empty string
dump_optional_blank(o) == IF o = None THEN JString("") ELSE JString(Val(o))

\* a field declared Optional[str]: None is written as null
dump_optional(o) == IF o = None THEN JNull ELSE JString(Val(o))

dump_segment(seg) ==
    JObject([start_time |-> JString(seg.start_time), end_time |-> JString(seg.end_time),
             text |-> JString(seg.text), voice_id |-> JNumber(seg.voice_id),
             emotion |-> dump_optional(seg.emotion), tone |-> dump_optional(seg.tone),
             energy_level |-> dump_optional(seg.energy_level),
             speech_rate |-> dump_optional(seg.speech_rate)])

dump_speaker(sp) ==
    JObject([voice_id |-> JNumber(sp.voice_id), name |-> JString(sp.name),
             company |-> JString(sp.company), position |-> JString(sp.position),
             role_in_video |-> JString(sp.role_in_video)])

dump_translation(tr) ==
    JObject([line_number |-> JNumber(tr.line_number), speaker |-> JString(tr.speaker),
             source_iso |-> JString(tr.source_iso), target_iso |-> JString(tr.target_iso)])

\* VideoTranscription.model_dump, written by json.dump
model_dump(t) ==
    JObject([script_segments |->
                 JArray([i \in 1..Len(t.script_segments) |-> dump_segment(t.script_segments[i])]),
             speakers |-> JArray([i \in 1..Len(t.speakers) |-> dump_speaker(t.speakers[i])]),
             translation_table |->
                 JArray([i \in 1..Len(t.translation_table) |->
                            dump_translation(t.translation_table[i])]),
             video_duration |-> dump_optional(t.video_duration),
             total_segments |-> JNumber(t.total_segments),
             total_speakers |-> JNumber(t.total_speakers),
             language_detected |-> dump_optional(t.language_detected)])

\* validation of a field declared Optional[str]
parse_optional(j) == IF j.j = "null" THEN None ELSE Some(j.v)

parse_segment(j) ==
    [start_time |-> j.v.start_time.v, end_time |-> j.v.end_time.v, text |-> j.v.text.v,
     voice_id |-> j.v.voice_id.v, emotion |-> parse_optional(j.v.emotion),
     tone |-> parse_optional(j.v.tone), energy_level |-> parse_optional(j.v.energy_level),
     speech_rate |-> parse_optional(j.v.speech_rate)]

parse_speaker(j) ==
    [voice_id |-> j.v.voice_id.v, name |-> j.v.name.v, company |-> j.v.company.v,
     position |-> j.v.position.v, role_in_video |-> j.v.role_in_video.v]

parse_translation(j) ==
    [line_number |-> j.v.line_number.v, speaker |-> j.v.speaker.v,
     source_iso |-> j.v.source_iso.v, target_iso |-> j.v.target_iso.v]

\* VideoTranscription.model_validate on the loaded JSON
model_validate(j) ==
    [script_segments |->
         [i \in 1..Len(j.v.script_segments.v) |-> parse_segment(j.v.script_segments.v[i])],
     speakers |-> [i \in 1..Len(j.v.speakers.v) |-> parse_speaker(j.v.speakers.v[i])],
     translation_table |->
         [i \in 1..Len(j.v.translation_table.v) |->
             parse_translation(j.v.translation_table.v[i])],
     video_duration |-> parse_optional(j.v.video_duration),
     total_segments |-> j.v.total_segments.v,
     total_speakers |-> j.v.total_speakers.v,
     language_detected |-> parse_optional(j.v.language_detected)]

-----------------------------------------------------------------------------
(* A consumer of an aggregate: lookups and the JSON export, as in          *)
(* src/test_local.py, src/example.py and main().                           *)

\* TranslationTable(...)
Translation(n) ==
    [line_number |-> n, speaker |-> "Jane", source_iso |-> "Hello", target_iso |-> "Hola"]

ModelSegments == {Segment(1), SegmentWith(2, Some("happy")), Segment(3)}
ModelSpeakers == {Speaker(1, "Jane"), Speaker(1, "?"), Speaker(2, "Bob"), Speaker(3, "Jane")}

\* translation_table, video_duration and language_detected: at their
\* defaults, or present
Extras ==
    {[translation_table |-> <<>>, video_duration |-> None, language_detected |-> None],
     [translation_table |-> <<Translation(1)>>, video_duration |-> Some("00:02"),
      language_detected |-> Some("en")]}

\* the aggregates a consumer may hold; the embedded counts are the lengths
\* (after update_counts) or the model's own
Transcriptions ==
    {[script_segments |-> segs, speakers |-> sps,
      translation_table |-> x.translation_table, video_duration |-> x.video_duration,
      total_segments |-> IF own THEN 99 ELSE Len(segs),
      total_speakers |-> IF own THEN 0 ELSE Len(sps),
      language_detected |-> x.language_detected] :
        segs \in SeqUpTo(ModelSegments, MaxSegments),
        sps \in SeqUpTo(ModelSpeakers, MaxSpeakers),
        x \in Extras, own \in BOOLEAN}

\* mutant: a segment without a speaker gets empty speaker columns
speaker_columns_blank(speaker) ==
    IF speaker # None
    THEN [speaker_name |-> Val(speaker).name, speaker_company |-> Val(speaker).company,
          speaker_position |-> Val(speaker).position]
    ELSE [speaker_name |-> "", speaker_company |-> "", speaker_position |-> ""]

\* the speaker columns of a row: speaker.x if speaker else the marker
speaker_columns(speaker) ==
    IF speaker # None
    THEN [speaker_name |-> Val(speaker).name, speaker_company |-> Val(speaker).company,
          speaker_position |-> Val(speaker).position]
    ELSE [speaker_name |-> NOT_FOUND_MARKER, speaker_company |-> NOT_FOUND_MARKER,
          speaker_position |-> NOT_FOUND_MARKER]

\* x or "" on an optional string
OrBlank(o) == IF o # None /\ Val(o) # "" THEN Val(o) ELSE ""

\* one row of segments_data (export_to_csv), and one of combined_data (the
\* web application), which adds the paralinguistic columns
segment_row(t, seg) ==
    LET cols == speaker_columns(get_speaker_by_voice_id(t, seg.voice_id)) IN
    [start_time |-> seg.start_time, end_time |-> seg.end_time,
     speaker_name |-> cols.speaker_name, speaker_company |-> cols.speaker_company,
     speaker_position |-> cols.speaker_position, text |-> seg.text,
     voice_id |-> seg.voice_id]

combined_row(t, seg) ==
    LET cols == speaker_columns(get_speaker_by_voice_id(t, seg.voice_id)) IN
    [start_time |-> seg.start_time, end_time |-> seg.end_time,
     speaker_name |-> cols.speaker_name, speaker_company |-> cols.speaker_company,
     speaker_position |-> cols.speaker_position, text |-> seg.text,
     voice_id |-> seg.voice_id, emotion |-> OrBlank(seg.emotion),
     tone |-> OrBlank(seg.tone), energy_level |-> OrBlank(seg.energy_level),
     speech_rate |-> OrBlank(seg.speech_rate)]

\* the for loops that append one row per segment
RECURSIVE SegmentRows(_, _)
SegmentRows(t, segments) ==
    IF segments = <<>> THEN <<>>
    ELSE <<segment_row(t, Head(segments))>> \o SegmentRows(t, Tail(segments))

RECURSIVE CombinedRows(_, _)
CombinedRows(t, segments) ==
    IF segments = <<>> THEN <<>>
    ELSE <<combined_row(t, Head(segments))>> \o CombinedRows(t, Tail(segments))

\* TranscriptionVisualizer.export_to_csv: the tables it writes; the
\* translations file is written only for a non-empty translation table
export_to_csv(t) ==
    [segments |-> SegmentRows(t, t.script_segments),
     speakers |-> t.speakers,
     translations |-> IF t.translation_table # <<>> THEN Some(t.translation_table) ELSE None]

\* speaker_for_voice.get(v): the dict comprehension over the speakers keeps
\* the latest speaker of a voice_id
speaker_for_voice(t, v) == LastWithVoice(t.speakers, v)

\* the label of a segment's speaker: the name when it was found, else the
\* voice with the position or the role when one was found, else the voice
speaker_label(speaker, v) ==
    IF speaker # None /\ Val(speaker).name \notin {NOT_FOUND_MARKER, ""}
    THEN [kind |-> "name", name |-> Val(speaker).name]
    ELSE IF speaker # None /\ Val(speaker).name = NOT_FOUND_MARKER
            /\ Val(speaker).position \notin {NOT_FOUND_MARKER, ""}
    THEN [kind |-> "voice", voice_id |-> v, detail |-> Val(speaker).position]
    ELSE IF speaker # None /\ Val(speaker).name = NOT_FOUND_MARKER
            /\ Val(speaker).position = NOT_FOUND_MARKER
            /\ Val(speaker).role_in_video \notin {NOT_FOUND_MARKER, ""}
    THEN [kind |-> "voice", voice_id |-> v, detail |-> Val(speaker).role_in_video]
    ELSE [kind |-> "voice", voice_id |-> v, detail |-> ""]

\* the rows yield_rows yields after the header: a quote mark stands for the
\* speaker of a segment that follows one of the same voice; speaker is the
\* entry of speaker_for_voice the label was made from
RECURSIVE DisplayRows(_, _, _)
DisplayRows(t, segments, previous_voice) ==
    IF segments = <<>> THEN <<>>
    ELSE LET segment == Head(segments)
             current_voice == segment.voice_id
             speaker == speaker_for_voice(t, current_voice)
         IN <<[start_time |-> segment.start_time, end_time |-> segment.end_time,
               display_speaker |-> IF Some(current_voice) # previous_voice
                                   THEN speaker_label(speaker, current_voice)
                                   ELSE [kind |-> "ditto"],
               text |-> segment.text,
               speaker |-> speaker]>>
            \o DisplayRows(t, Tail(segments), Some(current_voice))

\* display_script_segments
display_script_segments(t) == DisplayRows(t, t.script_segments, None)

VoiceIds == {1, 2, 3, 99}
Names == {"Jane", "jane", "Bob", "?"}

\* no invocation of transcribe_video is in progress
NoInvocation ==
    /\ vertexai = FALSE
    /\ video_uri = <<>>
    /\ start_offset = None
    /\ end_offset = None
    /\ fps = None
    /\ custom_prompt = None
    /\ pc = "off"
    /\ interrupted = FALSE
    /\ Locals

InitModel ==
    /\ transcription \in Transcriptions
    /\ last = None
    /\ NoInvocation
    /\ NoMain
    /\ NoSessions

invocation == <<args, pc, request, retry_state, response, result, interrupted>>

\* transcription.get_speaker_by_voice_id(v)
GetSpeakerByVoiceId(v) ==
    /\ last' = Some([op |-> "get_speaker_by_voice_id", voice_id |-> v,
                     value |-> get_speaker_by_voice_id(transcription, v)])
    /\ UNCHANGED <<transcription, invocation, cli, shared>>

\* mutant: the lookup hands the segments over: it takes them out of the
\* aggregate and recounts
GetSegmentsBySpeakerTaking(name) ==
    /\ last' = Some([op |-> "get_segments_by_speaker", speaker_name |-> name,
                     value |-> get_segments_by_speaker(transcription, name)])
    /\ transcription' =
         update_counts([transcription EXCEPT !.script_segments =
             SelectSeq(transcription.script_segments,
                       LAMBDA seg : \A i \in 1..Len(Val(last').value) :
                                       Val(last').value[i] # seg)])
    /\ UNCHANGED <<invocation, cli, shared>>

\* transcription.get_segments_by_speaker(name)
GetSegmentsBySpeaker(name) ==
    /\ last' = Some([op |-> "get_segments_by_speaker", speaker_name |-> name,
                     value |-> get_segments_by_speaker(transcription, name)])
    /\ UNCHANGED <<transcription, invocation, cli, shared>>

\* json.dump(transcription.model_dump(), f)
DumpJson ==
    /\ last' = Some([op |-> "model_dump", value |-> model_dump(transcription)])
    /\ UNCHANGED <<transcription, invocation, cli, shared>>

\* the written JSON is loaded and validated
LoadJson ==
    /\ last # None
    /\ Val(last).op = "model_dump"
    /\ last' = Some([op |-> "model_validate", value |-> model_validate(Val(last).value)])
    /\ UNCHANGED <<transcription, invocation, cli, shared>>

\* visualizer.export_to_csv(transcription, base_filename)
ExportToCsv ==
    /\ last' = Some([op |-> "export_to_csv", value |-> export_to_csv(transcription)])
    /\ UNCHANGED <<transcription, invocation, cli, shared>>

\* the combined CSV of the web application
CombinedCsv ==
    /\ last' = Some([op |-> "combined_csv",
                     value |-> [segments |-> CombinedRows(transcription,
                                                         transcription.script_segments)]])
    /\ UNCHANGED <<transcription, invocation, cli, shared>>

\* visualizer.display_script_segments(transcription)
DisplayScriptSegments ==
    /\ last' = Some([op |-> "display_script_segments",
                     value |-> [segments |-> display_script_segments(transcription)]])
    /\ UNCHANGED <<transcription, invocation, cli, shared>>

NextModel ==
    \/ DisplayScriptSegments
    \/ ExportToCsv
    \/ CombinedCsv
    \/ \E v \in VoiceIds : GetSpeakerByVoiceId(v)
    \/ \E name \in Names : GetSegmentsBySpeaker(name)
    \/ DumpJson
    \/ LoadJson

SpecModel == InitModel /\ [][NextModel]_vars

\* transcription = transcriber.transcribe_video(...): the caller binds the
\* aggregate the invocation returned
BindResult ==
    /\ pc = "done"
    /\ result.kind = "returned"
    /\ transcription = None
    /\ transcription' = result.value
    /\ UNCHANGED <<last, invocation, cli, shared>>

\* an aggregate a caller holds: one it constructed, or one an invocation of
\* transcribe_video is about to return to it
InitUse ==
    \/ InitModel
    \/ Init /\ fps = None /\ StartsWith(video_uri, HttpsPrefix)

\* the invocation, then the lookups and the exporters on what it returned
NextUse ==
    \/ Next
    \/ BindResult
    \/ transcription # None /\ NextModel

SpecUse == InitUse /\ [][NextUse]_vars

-----------------------------------------------------------------------------
(* The command line: main() of src/main.py, from the parsed arguments to   *)
(* the exit code of the process.  --start and --end count half hours.      *)

\* the class attributes of Config, read from the environment at import; a
\* string is a sequence of chunks
Configs ==
    {[GOOGLE_GENAI_USE_VERTEXAI |-> v, GOOGLE_CLOUD_PROJECT |-> p, GOOGLE_API_KEY |-> k] :
        v \in BOOLEAN, p \in {<<>>, <<"project">>}, k \in {<<>>, <<"key">>}}

\* mutant: only the API key of the lightweight backend is required
validate_config_key_only(c) ==
    c.GOOGLE_GENAI_USE_VERTEXAI \/ c.GOOGLE_API_KEY # <<>>

\* Config.validate_config
validate_config(c) ==
    IF c.GOOGLE_GENAI_USE_VERTEXAI
    THEN c.GOOGLE_CLOUD_PROJECT # <<>>
    ELSE c.GOOGLE_API_KEY # <<>>

\* the video source options are mutually exclusive and one is required; an
\* option may be given the empty string
Sources ==
    {[youtube |-> Some(<<"x">>), gs_uri |-> None, url |-> None],
     [youtube |-> Some(<<>>), gs_uri |-> None, url |-> None],
     [youtube |-> None, gs_uri |-> Some(<<"gs://", "x">>), url |-> None],
     [youtube |-> None, gs_uri |-> None, url |-> Some(<<"https://", "x">>)]}

\* argparse.Namespace
Argvs ==
    {[youtube |-> src.youtube, gs_uri |-> src.gs_uri, url |-> src.url,
      start |-> st, end |-> None, fps |-> f, quiet |-> q, export |-> e, json |-> j] :
        src \in Sources, st \in {None, Some(0)}, f \in {None, Some(MAX_FPS + 1)},
        q \in BOOLEAN, e \in BOOLEAN, j \in BOOLEAN}

InitMain ==
    /\ argv \in Argvs
    /\ config \in Configs
    /\ main_pc = "init"
    /\ exit_code = None
    /\ transcriber = None
    /\ NoInvocation
    /\ NoConsumer
    /\ NoSessions

\* main has ended: it returned, or left through sys.exit
MainEnded == main_pc \in {"returned", "no_source", "no_segments", "interrupted", "failed"}

\* line 118-120: except Exception
MainFails ==
    /\ main_pc' = "failed"
    /\ exit_code' = Some(1)

\* str.lower() on the values the flag takes
Lower(str) == IF str = "True" THEN "true" ELSE IF str = "False" THEN "false" ELSE str

\* Config.get_service_name, and the backend genai.Client() takes from the
\* environment when it is not told one
get_service_name(env) ==
    IF Lower(env.GOOGLE_GENAI_USE_VERTEXAI) = "true" THEN "Vertex AI" ELSE "Google AI Studio"

\* Config.setup_environment: what it writes to os.environ
setup_environment(c) ==
    [GOOGLE_GENAI_USE_VERTEXAI |-> IF c.GOOGLE_GENAI_USE_VERTEXAI THEN "True" ELSE "False",
     GOOGLE_CLOUD_PROJECT |-> c.GOOGLE_CLOUD_PROJECT,
     GOOGLE_API_KEY |-> c.GOOGLE_API_KEY]

\* the ValueError of an invalid configuration, and the one the client
\* library raises when it refuses its credentials
ConfigError ==
    [class |-> "ValueError", code |-> 0, message |-> Some(<<"Invalid configuration">>)]
ClientRefusal ==
    [class |-> "ValueError", code |-> 0, message |-> Some(<<"Missing key inputs">>)]

\* a constructed transcriber, with its client
Object(client) == [kind |-> "object", client |-> client]

\* VideoTranscriber.__init__ with skip_config_validation=False on the class
\* attributes c: the environment it leaves and how it ends; no client is
\* created before the configuration is found valid
VideoTranscriber(c, refused) ==
    LET env == setup_environment(c) IN
    [environ |-> env,
     ended |-> IF ~validate_config(c) THEN Raised(ConfigError)
               ELSE IF refused THEN Raised(ClientRefusal)
               ELSE Object([vertexai |-> get_service_name(env) = "Vertex AI",
                            api_key |-> env.GOOGLE_API_KEY])]

\* line 61-63: the transcriber is constructed; the configuration may be
\* invalid and the client library may refuse its credentials
MainConstruct(refused) ==
    /\ main_pc = "init"
    /\ environ' = VideoTranscriber(config, refused).environ
    /\ transcriber' = Some(VideoTranscriber(config, refused).ended)
    /\ IF Val(transcriber').kind = "raised"
       THEN MainFails /\ UNCHANGED vertexai
       ELSE /\ vertexai' = Val(transcriber').client.vertexai
            /\ main_pc' = "call"
            /\ UNCHANGED exit_code
    /\ UNCHANGED <<video_uri, start_offset, end_offset, fps, custom_prompt, pc, request,
                   retry_state, response, result, interrupted, argv, config, consumer,
                   sessions>>

\* line 66-74: the video URI of the source option that is set
SourceUri(a) ==
    IF TruthyStr(a.youtube) THEN Some(YouTubePrefix \o Val(a.youtube))
    ELSE IF TruthyStr(a.gs_uri) THEN a.gs_uri
    ELSE IF TruthyStr(a.url) THEN a.url
    ELSE None

\* line 77-78: timedelta(seconds=s) if s else None
Offset(s) == IF TruthyNum(s) THEN s ELSE None

\* line 66-90: the URI and the offsets are prepared and transcribe_video is
\* entered; without a source main leaves through sys.exit(1)
MainCall ==
    /\ main_pc = "call"
    /\ IF SourceUri(argv) = None
       THEN /\ main_pc' = "no_source"
            /\ exit_code' = Some(1)
            /\ UNCHANGED <<video_uri, start_offset, end_offset, fps, custom_prompt, pc>>
       ELSE /\ video_uri' = Val(SourceUri(argv))
            /\ start_offset' = Offset(argv.start)
            /\ end_offset' = Offset(argv.end)
            /\ fps' = argv.fps
            /\ custom_prompt' = None
            /\ pc' = "validate"
            /\ main_pc' = "transcribing"
            /\ UNCHANGED exit_code
    /\ UNCHANGED <<vertexai, request, retry_state, response, result, interrupted, argv,
                   config, transcriber, consumer, shared>>

\* line 84-90, 115-120: transcribe_video has ended; what it raised reaches
\* the handlers of main, what it returned is bound to transcription
MainResumed ==
    /\ main_pc = "transcribing"
    /\ pc = "done"
    /\ IF result.kind = "raised"
       THEN /\ main_pc' = IF result.error.class = "KeyboardInterrupt"
                          THEN "interrupted" ELSE "failed"
            /\ exit_code' = Some(1)
       ELSE /\ main_pc' = "display"
            /\ UNCHANGED exit_code
    /\ UNCHANGED <<invocation, argv, config, transcriber, consumer, shared>>

\* line 93-94: the transcription is displayed unless --quiet
MainDisplay(raises) ==
    /\ main_pc = "display"
    /\ IF ~argv.quiet /\ raises
       THEN MainFails
       ELSE main_pc' = "export" /\ UNCHANGED exit_code
    /\ UNCHANGED <<invocation, argv, config, transcriber, consumer, shared>>

\* line 97-98: the CSV export with --export
MainExport(raises) ==
    /\ main_pc = "export"
    /\ IF argv.export /\ raises
       THEN MainFails
       ELSE main_pc' = "json" /\ UNCHANGED exit_code
    /\ UNCHANGED <<invocation, argv, config, transcriber, consumer, shared>>

\* line 100-104: the JSON export with --json
MainJson(raises) ==
    /\ main_pc = "json"
    /\ IF argv.json /\ raises
       THEN MainFails
       ELSE main_pc' = "finish" /\ UNCHANGED exit_code
    /\ UNCHANGED <<invocation, argv, config, transcriber, consumer, shared>>

\* mutant: main returns whatever the transcription holds
final_status_success(t) == 0

\* line 107-113: main returns (exit code 0) with at least one segment and
\* leaves through sys.exit(1) without
final_status(t) == IF t.total_segments > 0 THEN 0 ELSE 1

MainFinish ==
    /\ main_pc = "finish"
    /\ exit_code' = Some(final_status(result.value))
    /\ main_pc' = IF Val(exit_code') = 0 THEN "returned" ELSE "no_segments"
    /\ UNCHANGED <<invocation, argv, config, transcriber, consumer, shared>>

\* line 115-117: the user interrupts main between two of its calls
MainInterrupt ==
    /\ main_pc \in {"init", "call", "display", "export", "json", "finish"}
    /\ interrupted' = TRUE
    /\ main_pc' = "interrupted"
    /\ exit_code' = Some(1)
    /\ UNCHANGED <<args, pc, request, retry_state, response, result, argv, config,
                   transcriber, consumer, shared>>

NextMain ==
    \/ NextInterrupt
    \/ \E refused \in BOOLEAN : MainConstruct(refused)
    \/ MainCall
    \/ MainResumed
    \/ \E raises \in BOOLEAN : MainDisplay(raises)
    \/ \E raises \in BOOLEAN : MainExport(raises)
    \/ \E raises \in BOOLEAN : MainJson(raises)
    \/ MainFinish
    \/ MainInterrupt

SpecMain == InitMain /\ [][NextMain]_vars

-----------------------------------------------------------------------------
(* The web application (src/app.py): two sessions of one server process,   *)
(* each running the request handler of the transcription button in its own *)
(* thread.  os.environ is one per process; the steps of the two handlers   *)
(* interleave.                                                             *)

SessionIds == {1, 2}

\* st.session_state of a session: the backend configured in its sidebar
\* (vertex_ai_config, or an api_key of its own) and the video it asks for
SessionStates ==
    {[vertex_ai_config |-> v, api_key |-> IF v THEN <<>> ELSE <<"key">>, video_uri |-> u] :
        v \in BOOLEAN, u \in {<<"gs://", "x">>, YouTubePrefix \o <<"x">>}}

\* os.environ when the server starts
StartEnviron ==
    [GOOGLE_GENAI_USE_VERTEXAI |-> "False", GOOGLE_CLOUD_PROJECT |-> <<>>,
     GOOGLE_API_KEY |-> <<>>]

InitSessions ==
    /\ environ = StartEnviron
    /\ sessions \in [SessionIds ->
                        {[pc |-> "configure", state |-> st, client |-> None,
                          video_part |-> None, outcome |-> "none"] : st \in SessionStates}]
    /\ NoInvocation
    /\ NoConsumer
    /\ NoMain

\* line 211-218: the handler writes the backend of its session to os.environ
SetConfiguration(id) ==
    /\ sessions[id].pc = "configure"
    /\ environ' =
          IF sessions[id].state.vertex_ai_config
          THEN [environ EXCEPT !.GOOGLE_GENAI_USE_VERTEXAI = "True",
                               !.GOOGLE_CLOUD_PROJECT = <<"project">>]
          ELSE [environ EXCEPT !.GOOGLE_GENAI_USE_VERTEXAI = "False",
                               !.GOOGLE_API_KEY = sessions[id].state.api_key]
    /\ sessions' = [sessions EXCEPT ![id].pc = "construct"]
    /\ UNCHANGED <<invocation, consumer, cli>>

\* line 224: VideoTranscriber(skip_config_validation=True) reads the API key
\* and the backend from os.environ
Construct(id) ==
    /\ sessions[id].pc = "construct"
    /\ sessions' =
          [sessions EXCEPT
             ![id].client = Some([vertexai |-> get_service_name(environ) = "Vertex AI",
                                  api_key |-> environ.GOOGLE_API_KEY]),
             ![id].pc = "transcribe"]
    /\ UNCHANGED <<environ, invocation, consumer, cli>>

\* line 229-243: transcribe_video on the client of the session; a refused
\* video reference ends it with the empty aggregate, an accepted one goes
\* to the remote calls
SessionTranscribe(id) ==
    /\ sessions[id].pc = "transcribe"
    /\ LET part == get_video_part(Val(sessions[id].client).vertexai,
                                  sessions[id].state.video_uri, None, None, None)
       IN sessions' =
             [sessions EXCEPT ![id].video_part = part,
                              ![id].outcome = IF part = None THEN "refused" ELSE "called",
                              ![id].pc = "done"]
    /\ UNCHANGED <<environ, invocation, consumer, cli>>

NextSessions ==
    \E id \in SessionIds :
        \/ SetConfiguration(id)
        \/ Construct(id)
        \/ SessionTranscribe(id)

SpecSessions == InitSessions /\ [][NextSessions]_vars

-----------------------------------------------------------------------------
(* Properties. *)

\* a retryable error as the specification words it: a ClientError with code
\* 429, or with code 400 and a message that contains " try again "
TransientError(e) ==
    /\ e.class = "ClientError"
    /\ \/ e.code = 429
       \/ /\ e.code = 400
          /\ e.message # None
          /\ \E i \in 1..Len(Val(e.message)) : Val(e.message)[i] = " try again "

\* the latest attempt is over and failed
LastAttemptFailed == pc # "in_flight" /\ outcome # None /\ Val(outcome).failed
LastError == Val(Val(outcome).exception)

\* C1: one invocation makes at most 7 remote calls; when the 7th call too
\* fails with a retryable error (the six before it did, or there had been no
\* 7th) the invocation has ended by raising, with exactly 7 calls made.
C1_AtMostSevenCalls ==
    /\ calls <= 7
    /\ (calls = 7 /\ LastAttemptFailed /\ TransientError(LastError))
          => (pc = "done" /\ result.kind = "raised")

C1_Witness ==
    /\ pc = "done" /\ calls = 7 /\ waits = 6
    /\ result.kind = "raised" /\ result.error.code = 429

\* C2: a failed attempt k < 7 is followed by attempt k+1 exactly when its error
\* is retryable; any other error ends the invocation with that error and
\* without another call or wait (one call and no wait when k = 1); nothing
\* happens after the invocation has ended.
C2_RetryIffTransient ==
    [][/\ (pc = "in_flight" /\ outcome' # None /\ Val(outcome').failed
             /\ attempt_number < 7)
          => LET err == Val(Val(outcome').exception) IN
             IF TransientError(err)
             THEN pc' = "sleep" /\ attempt_number' = attempt_number + 1
                  /\ result' = Pending
             ELSE /\ pc' = "done" /\ result' = Raised(err)
                  /\ calls' = calls /\ waits' = waits
                  /\ (attempt_number = 1 => calls' = 1 /\ waits' = 0)
       /\ (pc = "sleep" => pc' = "attempt" /\ UNCHANGED attempt_number)
       /\ (pc = "attempt" => pc' = "in_flight" /\ calls' = calls + 1)
       /\ pc # "done"]_vars

C2_Witness ==
    /\ pc = "done" /\ calls = 2 /\ waits = 1
    /\ result = Raised(ClientError(400, Some(<<"try again">>)))

\* the sum of the first n delays 10, 11, 12, ...
RECURSIVE SumDelays(_)
SumDelays(n) == IF n = 0 THEN 0 ELSE SumDelays(n - 1) + 10 + (n - 1)

\* C3: the wait after failed attempt k is 10 + (k - 1) seconds; an invocation
\* that returns after n + 1 calls has waited the sum of the first n delays
\* (33 seconds for n = 3) and returns the aggregate parsed from the response
\* of call n + 1.
C3_LinearBackoff ==
    /\ pc = "sleep" => sleep = 10 + ((attempt_number - 1) - 1)
    /\ (pc = "done" /\ result.kind = "returned" /\ calls >= 1)
          => /\ waits = calls - 1
             /\ slept = SumDelays(calls - 1)
             /\ calls = 4 => slept = 33
             /\ response # None /\ Val(response).attempt = calls
             /\ LET parsed == Val(response).parsed IN
                IF parsed.type = "VideoTranscription"
                THEN /\ result.value.script_segments = parsed.value.script_segments
                     /\ result.value.speakers = parsed.value.speakers
                ELSE result.value.script_segments = <<>>

C3_Witness ==
    /\ pc = "done" /\ result.kind = "returned"
    /\ calls = 4 /\ slept = 33 /\ Val(response).attempt = 4
    /\ Len(result.value.script_segments) = 2

\* C4: when the 7th attempt fails with a retryable error, what reaches the
\* caller is that attempt's own error, not a wrapper, and nothing is returned.
C4_OriginalErrorReraised ==
    (calls = 7 /\ LastAttemptFailed /\ TransientError(LastError))
       => /\ result = Raised(LastError)
          /\ result.error.class = "ClientError"

C4_Witness ==
    /\ pc = "done" /\ calls = 7
    /\ result = Raised(ClientError(400, Some(<<"Please", " try again ", "later">>)))

\* the sampling-rate check has raised
FpsRejected == result.kind = "raised" /\ result.error.class = "ValueError"

\* get_video_part has been called and has returned
VideoPartDecided == pc \notin {"validate", "video_part"} /\ ~FpsRejected

\* C5: a sampling rate below 0.1 or above 24.0 (1 and 240 tenths) makes
\* transcribe_video raise the configuration error with no remote call made; a
\* rate inside the range raises no configuration error.
C5_FpsRangeEnforced ==
    pc # "validate"
       => IF fps # None /\ (Val(fps) < 1 \/ Val(fps) > 240)
          THEN FpsRejected /\ pc = "done" /\ calls = 0
          ELSE ~FpsRejected

\* C6: get_timecode_format returns the extended format for a duration of one
\* hour or more and the default format for a shorter, zero, negative or
\* unknown duration.
C6_TimecodeFormatByDuration ==
    timecode_format # None
       => Val(timecode_format) =
             IF video_duration # None /\ Val(video_duration) >= Hour
             THEN "H:MM:SS"
             ELSE "MM:SS"

C6_Witness ==
    /\ video_duration = Some(Hour)
    /\ timecode_format = Some("H:MM:SS")
    /\ pc = "done"

\* C7: with no custom prompt, the timecode format embedded in the prompt is the
\* extended one when both offsets are given and end - start is one hour or
\* more, and the default one otherwise.
C7_FormatFromWindow ==
    (prompt # None /\ custom_prompt = None)
       => LET both == start_offset # None /\ end_offset # None
              fmt == IF both /\ Val(end_offset) - Val(start_offset) >= Hour
                     THEN "H:MM:SS"
                     ELSE "MM:SS"
          IN  \E i \in 1..Len(Val(prompt)) : Val(prompt)[i] = fmt

\* C8 as stated: the lightweight backend accepts a YouTube watch URL, an
\* https:// URL and a gs:// URI (as its HTTPS rewrite), and refuses the rest.
C8_LightweightAcceptsHttps ==
    (~vertexai /\ VideoPartDecided)
       => LET https == IF StartsWith(video_uri, GsPrefix)
                       THEN StoragePrefix \o SubSeq(video_uri, 2, Len(video_uri))
                       ELSE video_uri
          IN  /\ video_part # None <=> StartsWith(https, HttpsPrefix)
              /\ video_part # None => Val(video_part).file_data.file_uri = https

\* C8 amended: the lightweight backend accepts exactly the URIs that start with
\* the YouTube watch prefix, unchanged, and refuses every other URI, https://
\* URLs and gs:// URIs included.
C8_LightweightYouTubeOnly ==
    (~vertexai /\ VideoPartDecided)
       => /\ video_part # None <=> StartsWith(video_uri, YouTubePrefix)
          /\ video_part # None => Val(video_part).file_data.file_uri = video_uri
          /\ video_part = None => pc = "done" /\ calls = 0

C8_Witness ==
    /\ ~vertexai /\ pc = "done"
    /\ video_uri = <<"https://", "x">>
    /\ video_part = None /\ result.kind = "returned"

\* C9: on the enterprise backend get_video_part never refuses and the file URI
\* of the video reference is the input URI unchanged, so an invocation whose
\* sampling rate passed the check goes on to the remote call.
C9_EnterpriseNeverRefuses ==
    (vertexai /\ VideoPartDecided)
       => /\ video_part # None
          /\ Val(video_part).file_data.file_uri = video_uri
          /\ pc = "done" => calls >= 1

C9_Witness ==
    /\ vertexai /\ pc = "done" /\ calls >= 1
    /\ video_uri = <<"gs://", "x">>
    /\ Val(video_part).file_data.file_uri = <<"gs://", "x">>

\* C10: when get_video_part refuses and the sampling rate is valid,
\* transcribe_video raises nothing, makes no remote call and no wait, and
\* returns an empty aggregate with both counts 0.
C10_RefusalReturnsEmpty ==
    (VideoPartDecided /\ video_part = None /\ (fps = None \/ Val(fps) \in 1..240))
       => /\ pc = "done" /\ result.kind = "returned"
          /\ result.value.script_segments = <<>> /\ result.value.speakers = <<>>
          /\ result.value.total_segments = 0 /\ result.value.total_speakers = 0
          /\ calls = 0 /\ waits = 0 /\ slept = 0

C10_Witness ==
    /\ ~vertexai /\ pc = "done" /\ calls = 0
    /\ video_uri = <<"gs://", "x">> /\ fps = Some(DEFAULT_FPS)
    /\ video_part = None /\ result = Returned(EmptyTranscription)

\* the call returned a response whose payload is not a VideoTranscription
UnparseablePayload ==
    response # None /\ Val(response).parsed.type # "VideoTranscription"

\* C11: when the remote call succeeds but its payload is not a
\* VideoTranscription (absent, or of another type), transcribe_video raises
\* nothing and returns the empty aggregate (no segments, no speakers, both
\* totals 0), and no remote call follows the one that returned
C11_UnparseableGivesEmpty ==
    UnparseablePayload =>
        /\ pc \in {"parse", "done"}
        /\ result.kind # "raised"
        /\ calls = Val(response).attempt
        /\ pc = "done" =>
              /\ result.kind = "returned"
              /\ result.value.script_segments = <<>>
              /\ result.value.speakers = <<>>
              /\ result.value.total_segments = 0
              /\ result.value.total_speakers = 0

\* a dict payload came back on a later attempt and the invocation returned
C11_Witness ==
    /\ pc = "done"
    /\ UnparseablePayload
    /\ Val(response).parsed.type = "dict"
    /\ result.kind = "returned"
    /\ calls >= 2

\* C12: every aggregate transcribe_video returns, on every path (refusal,
\* unparseable payload, parsed payload), has total_segments equal to the
\* number of its script_segments and total_speakers equal to the number of
\* its speakers, whatever counts the model embedded: 3 segments with an
\* embedded total_segments of 99 come back with total_segments = 3
C12_CountsMatchLengths ==
    result.kind = "returned" =>
        /\ result.value.total_segments = Len(result.value.script_segments)
        /\ result.value.total_speakers = Len(result.value.speakers)

\* the payload had 3 segments and 2 speakers with embedded counts 99 and 7
C12_Witness ==
    /\ pc = "done"
    /\ result.kind = "returned"
    /\ response # None
    /\ Val(response).parsed.type = "VideoTranscription"
    /\ Len(Val(response).parsed.value.script_segments) = 3
    /\ Val(response).parsed.value.total_segments = 99
    /\ Val(response).parsed.value.total_speakers = 7
    /\ result.value.total_segments = 3
    /\ result.value.total_speakers = 2

\* the positions of the speakers with voice_id v, and the least of a
\* non-empty set of positions
SpeakersWithVoice(t, v) == {i \in 1..Len(t.speakers) : t.speakers[i].voice_id = v}
Least(S) == CHOOSE i \in S : \A k \in S : i <= k

\* C13: get_speaker_by_voice_id(v) returns the speaker at the lowest position
\* whose voice_id is v (the earliest one when several share it) and returns
\* None exactly when no speaker has voice_id v, an empty speakers list
\* included
C13_FirstSpeakerWithVoice ==
    (last # None /\ Val(last).op = "get_speaker_by_voice_id") =>
        LET hits == SpeakersWithVoice(transcription, Val(last).voice_id) IN
        /\ (Val(last).value = None) <=> (hits = {})
        /\ hits # {} => Val(last).value = Some(transcription.speakers[Least(hits)])

\* two speakers share voice_id 1 and the lookup returned the earlier one
C13_Witness ==
    /\ last # None
    /\ Val(last).op = "get_speaker_by_voice_id"
    /\ Val(last).voice_id = 1
    /\ transcription.speakers = <<Speaker(1, "?"), Speaker(1, "Jane")>>
    /\ Val(last).value = Some(Speaker(1, "?"))

\* the positions of the speakers named name, and of the segments spoken with
\* voice_id v
SpeakersNamed(t, name) == {i \in 1..Len(t.speakers) : t.speakers[i].name = name}
SegmentsSpokenBy(t, v) ==
    {i \in 1..Len(t.script_segments) : t.script_segments[i].voice_id = v}
\* the k-th position of a set of positions, in increasing order
Kth(S, k) == CHOOSE i \in S : Cardinality({m \in S : m <= i}) = k

\* C14: get_segments_by_speaker(name) resolves name to the first speaker
\* whose name equals it exactly and returns exactly the segments with that
\* speaker's voice_id, in their original order: with two speakers named
\* alike (voice_id 1 and 3) only the segments of voice_id 1 are returned;
\* with no speaker of that name the result is empty
C14_SegmentsOfFirstNamesake ==
    (last # None /\ Val(last).op = "get_segments_by_speaker") =>
        LET named == SpeakersNamed(transcription, Val(last).speaker_name)
            value == Val(last).value
        IN IF named = {}
           THEN value = <<>>
           ELSE LET spoken == SegmentsSpokenBy(transcription,
                                  transcription.speakers[Least(named)].voice_id)
                IN /\ Len(value) = Cardinality(spoken)
                   /\ \A k \in 1..Len(value) :
                         value[k] = transcription.script_segments[Kth(spoken, k)]

\* two speakers are named Jane, with voice_id 1 and 3, both voices have a
\* segment, and only the segment of voice_id 1 was returned
C14_Witness ==
    /\ last # None
    /\ Val(last).op = "get_segments_by_speaker"
    /\ Val(last).speaker_name = "Jane"
    /\ transcription.speakers = <<Speaker(1, "Jane"), Speaker(3, "Jane")>>
    /\ transcription.script_segments = <<Segment(3), Segment(1)>>
    /\ Val(last).value = <<Segment(1)>>

MainSawError ==
    \/ main_pc \in {"failed", "interrupted"}
    \/ result.kind = "raised"

\* C16: main() ends with exit code 0 if and only if transcribe_video returned
\* an aggregate with total_segments >= 1 and no error was raised while
\* initializing, transcribing, displaying or exporting; it ends with exit
\* code 1 when total_segments = 0 (refused reference and unparseable payload
\* included), when an exception is raised and when the user interrupts
C16_ExitCode ==
    /\ MainEnded <=> exit_code # None
    /\ MainEnded =>
          /\ Val(exit_code) \in {0, 1}
          /\ (Val(exit_code) = 0) <=>
                /\ result.kind = "returned"
                /\ result.value.total_segments >= 1
                /\ ~MainSawError
                /\ ~interrupted
          /\ (result.kind = "returned" /\ result.value.total_segments = 0)
                => Val(exit_code) = 1
          /\ (MainSawError \/ interrupted) => Val(exit_code) = 1

\* main ended with exit code 1 after an unparseable payload was turned into
\* the empty aggregate and displayed and exported without error
C16_Witness ==
    /\ main_pc = "no_segments"
    /\ exit_code = Some(1)
    /\ UnparseablePayload
    /\ result = Returned(EmptyTranscription)
    /\ ~argv.quiet /\ argv.export /\ argv.json

\* the call returned a valid payload with 2 segments and 1 speaker
TwoSegmentsOneSpeaker ==
    /\ response # None
    /\ Val(response).parsed.type = "VideoTranscription"
    /\ Len(Val(response).parsed.value.script_segments) = 2
    /\ Len(Val(response).parsed.value.speakers) = 1

\* C17: transcribe_youtube_video(id) is transcribe_video on the URI
\* 'https://www.youtube.com/watch?v=' followed by id: on both backends that
\* URI is accepted unchanged as the video reference, and with no window,
\* the default sampling rate and the default prompt a call that returns a
\* valid payload with 2 segments and 1 speaker yields total_segments = 2
\* and total_speakers = 1
C17_YouTubeIdentifier ==
    /\ \E youtube_id \in YouTubeIds :
          video_uri = <<"https://", "www.youtube.com/watch?v=">> \o youtube_id
    /\ pc \notin {"validate", "video_part"} =>
          /\ video_part # None
          /\ Val(video_part).file_data.file_uri = video_uri
    /\ (pc = "done" /\ TwoSegmentsOneSpeaker) =>
          /\ result.kind = "returned"
          /\ result.value.script_segments = Val(response).parsed.value.script_segments
          /\ result.value.speakers = Val(response).parsed.value.speakers
          /\ result.value.total_segments = 2
          /\ result.value.total_speakers = 1

\* on the lightweight backend the first call returned 2 segments and 1
\* speaker for the identifier "x"
C17_Witness ==
    /\ ~vertexai
    /\ video_uri = <<"https://", "www.youtube.com/watch?v=", "x">>
    /\ pc = "done"
    /\ calls = 1
    /\ TwoSegmentsOneSpeaker
    /\ result.kind = "returned"
    /\ result.value.total_segments = 2
    /\ result.value.total_speakers = 1

\* the diagnostics of the response complain: a finish reason other than
\* STOP, no candidates, no output text or no usage counters
Complaint(info) ==
    \/ ~info.usage_metadata
    \/ ~info.candidates
    \/ info.finish_reason # "STOP"
    \/ ~info.text

\* C18: a remote call that returns without raising ends the retry loop
\* whatever the diagnostics of the response are (finish reason other than
\* STOP, missing candidates, missing output text, missing usage counters):
\* no further call, no wait and no exception follow, and the response goes
\* on to parsing
C18_DiagnosticsNeverRetry ==
    /\ [](response # None =>
            /\ pc \in {"parse", "done"}
            /\ result.kind # "raised"
            /\ calls = Val(response).attempt
            /\ waits = calls - 1)
    /\ [][(pc = "in_flight" /\ response' # response) =>
            /\ pc' = "parse"
            /\ result' = Pending
            /\ calls' = calls /\ waits' = waits /\ slept' = slept]_vars
    /\ [][pc = "parse" => pc' = "done" /\ result'.kind = "returned"]_vars

\* a response without candidates, output text and usage counters came back
\* on the second attempt and was parsed into the returned aggregate
C18_Witness ==
    /\ pc = "done"
    /\ response # None
    /\ Complaint(Val(response).info)
    /\ ~Val(response).info.candidates
    /\ Val(response).printed = <<"No response.candidates">>
    /\ Val(response).parsed.type = "VideoTranscription"
    /\ calls = 2 /\ waits = 1
    /\ result.kind = "returned"
    /\ result.value.total_segments = 1

\* C19: concurrent requests share no mutable state: in every interleaving of
\* two requests (each setting its backend configuration, constructing its
\* transcriber and running transcribe_video) the backend a request uses and
\* the way it ends depend only on its own inputs: its client is on the
\* backend its session configured, and its video reference is refused
\* exactly when that backend refuses it
C19_SessionsIndependent ==
    \A id \in SessionIds :
        /\ sessions[id].client # None =>
              Val(sessions[id].client).vertexai = sessions[id].state.vertex_ai_config
        /\ sessions[id].pc = "done" =>
              (sessions[id].outcome = "refused") <=>
                 (get_video_part(sessions[id].state.vertex_ai_config,
                                 sessions[id].state.video_uri, None, None, None) = None)

\* C20: when a user interrupt arrives during an in-flight remote call or
\* during a backoff wait of transcribe_video, the invocation ends by
\* propagating the interrupt: no further remote call is started, no further
\* wait is performed (the interrupted wait is not completed), and no
\* VideoTranscription is returned
C20_InterruptPropagates ==
    /\ [](interrupted =>
            /\ pc = "done"
            /\ result.kind = "raised"
            /\ result.error.class = "KeyboardInterrupt")
    /\ [][(~interrupted /\ interrupted') =>
            /\ pc \in {"in_flight", "sleep"}
            /\ calls' = calls /\ waits' = waits /\ slept' = slept
            /\ response' = response]_vars
    /\ [][~interrupted]_vars

\* the second call failed with a retryable error and the interrupt arrived
\* during the backoff wait that followed
C20_Witness ==
    /\ interrupted
    /\ pc = "done"
    /\ calls = 2 /\ waits = 1
    /\ attempt_number = 3
    /\ Val(outcome).failed
    /\ Val(Val(outcome).exception).class = "ClientError"
    /\ result = Raised(KeyboardInterrupt)

\* C21: within one invocation the attempts are strictly sequential: at most
\* one remote call is in flight (a call in flight is the latest one started
\* and every earlier one has its outcome), attempt k+1 starts only after
\* attempt k has failed and the whole delay after it has been waited out,
\* and no attempt starts once an attempt has succeeded
C21_SequentialAttempts ==
    /\ [](/\ pc = "in_flight" => (calls = attempt_number /\ response = None)
          /\ pc # "in_flight" => (calls = 0 \/ outcome # None))
    /\ [][calls' # calls =>
            /\ calls' = calls + 1
            /\ pc = "attempt" /\ pc' = "in_flight"
            /\ response = None
            /\ calls >= 1 =>
                  /\ Val(outcome).failed
                  /\ waits = calls
                  /\ slept = SumDelays(calls)]_vars
    /\ [][response # None => calls' = calls]_vars

\* the third call is in flight after two failed calls and 10 + 11 seconds of
\* waiting
C21_Witness ==
    /\ pc = "in_flight"
    /\ calls = 3 /\ attempt_number = 3
    /\ Val(outcome).failed
    /\ waits = 2 /\ slept = 21

\* the configuration misses the credentials of the backend it selects: the
\* enterprise backend without a project, the lightweight one without a key
MissingCredentials(c) ==
    \/ c.GOOGLE_GENAI_USE_VERTEXAI /\ c.GOOGLE_CLOUD_PROJECT = <<>>
    \/ ~c.GOOGLE_GENAI_USE_VERTEXAI /\ c.GOOGLE_API_KEY = <<>>

\* C22: constructing a VideoTranscriber with validation enabled raises a
\* ValueError when the enterprise backend is selected without a project or
\* the lightweight backend without an API key, before a client is created
\* or a call is made; the construction is not tried again and no
\* transcriber object exists afterwards
C22_MissingCredentialsRaise ==
    /\ []((main_pc # "init" /\ ~interrupted /\ MissingCredentials(config)) =>
            /\ transcriber # None
            /\ Val(transcriber).kind = "raised"
            /\ Val(transcriber).error.class = "ValueError"
            /\ main_pc = "failed"
            /\ pc = "off" /\ calls = 0 /\ waits = 0)
    /\ []((transcriber # None /\ Val(transcriber).kind = "object") =>
            ~MissingCredentials(config))
    /\ [][transcriber # None => transcriber' = transcriber]_vars

\* the enterprise backend was selected with an API key but no project, and
\* main ended with exit code 1 without a transcriber
C22_Witness ==
    /\ config.GOOGLE_GENAI_USE_VERTEXAI
    /\ config.GOOGLE_CLOUD_PROJECT = <<>>
    /\ config.GOOGLE_API_KEY = <<"key">>
    /\ transcriber = Some(Raised(ConfigError))
    /\ main_pc = "failed"
    /\ exit_code = Some(1)

\* C23: a segment whose voice_id matches no speaker never makes a consumer
\* fail: export_to_csv and the combined CSV of the web application emit
\* exactly one row per segment, in segment order, for every aggregate, with
\* speaker name, company and position taken from the first speaker with the
\* segment's voice_id when there is one and the '?' marker in all three
\* when there is none
C23_OneRowPerSegment ==
    (last # None /\ Val(last).op \in {"export_to_csv", "combined_csv"}) =>
        LET rows == Val(last).value.segments
            segs == transcription.script_segments
        IN /\ Len(rows) = Len(segs)
           /\ \A i \in 1..Len(rows) :
                 LET hits == SpeakersWithVoice(transcription, segs[i].voice_id) IN
                 /\ rows[i].voice_id = segs[i].voice_id
                 /\ rows[i].text = segs[i].text
                 /\ rows[i].start_time = segs[i].start_time
                 /\ rows[i].end_time = segs[i].end_time
                 /\ IF hits = {}
                    THEN /\ rows[i].speaker_name = "?"
                         /\ rows[i].speaker_company = "?"
                         /\ rows[i].speaker_position = "?"
                    ELSE LET sp == transcription.speakers[Least(hits)] IN
                         /\ rows[i].speaker_name = sp.name
                         /\ rows[i].speaker_company = sp.company
                         /\ rows[i].speaker_position = sp.position

\* the first segment has a voice_id no speaker has, the second one is
\* Jane's: two rows were written, the first with the marker
C23_Witness ==
    /\ last # None
    /\ Val(last).op = "export_to_csv"
    /\ transcription.speakers = <<Speaker(1, "Jane")>>
    /\ transcription.script_segments = <<Segment(3), Segment(1)>>
    /\ Len(Val(last).value.segments) = 2
    /\ Val(last).value.segments[1].speaker_name = "?"
    /\ Val(last).value.segments[1].speaker_company = "?"
    /\ Val(last).value.segments[2].speaker_name = "Jane"
    /\ Val(last).value.segments[2].speaker_company = "Acme"

\* the three ways an invocation ends
EndsReturned == result.kind = "returned"
EndsNonRetryable == result.kind = "raised" /\ ~TransientError(result.error)
EndsExhausted ==
    /\ result.kind = "raised"
    /\ TransientError(result.error)
    /\ calls = 7
    /\ LastAttemptFailed /\ result.error = LastError

\* C24: every invocation terminates, provided each remote call returns or
\* raises: after at most 7 remote calls and at most 6 waits it ends in
\* exactly one of three outcomes: an aggregate is returned, a non-retryable
\* error is raised, or the error of the exhausted final attempt is raised
C24_Terminates ==
    /\ <>(pc = "done")
    /\ [](calls <= 7 /\ waits <= 6)
    /\ [](pc = "done" =>
            /\ EndsReturned \/ EndsNonRetryable \/ EndsExhausted
            /\ ~(EndsReturned /\ EndsNonRetryable)
            /\ ~(EndsReturned /\ EndsExhausted)
            /\ ~(EndsNonRetryable /\ EndsExhausted))
    /\ [](pc # "done" => result = Pending)

\* the seventh call returned after six waits and the invocation returned
C24_Witness ==
    /\ pc = "done"
    /\ calls = 7 /\ waits = 6
    /\ EndsReturned
    /\ Val(response).attempt = 7

\* the operation of the consumer that acted in this step
Acted(ops) == last' # last /\ last' # None /\ Val(last').op \in ops

\* the aggregate a caller holds after transcribe_video has returned it
Held == pc = "done" /\ result.kind = "returned" /\ transcription # None

\* a step of a lookup leaves the aggregate as it was, and no step changes
\* the counts of a returned aggregate
LookupsPure ==
    /\ Acted({"get_speaker_by_voice_id", "get_segments_by_speaker"}) =>
          /\ transcription'.script_segments = transcription.script_segments
          /\ transcription'.speakers = transcription.speakers
          /\ transcription'.translation_table = transcription.translation_table
          /\ transcription'.total_segments = transcription.total_segments
          /\ transcription'.total_speakers = transcription.total_speakers
    /\ (pc = "done" /\ result.kind = "returned") =>
          /\ result'.kind = "returned"
          /\ result'.value.total_segments = result.value.total_segments
          /\ result'.value.total_speakers = result.value.total_speakers
    /\ Held =>
          /\ transcription' # None
          /\ transcription'.total_segments = transcription.total_segments
          /\ transcription'.total_speakers = transcription.total_speakers

\* C25: the lookups get_speaker_by_voice_id and get_segments_by_speaker leave
\* script_segments, speakers, translation_table, total_segments and
\* total_speakers of every aggregate unchanged, and after transcribe_video has
\* returned an aggregate no operation of the transcriber, the lookups or the
\* exporters changes its total_segments or total_speakers
C25_LookupsPure == [][LookupsPure]_vars

\* a returned aggregate with three segments was bound, and a lookup by name
\* found two of them; the counts are still those of update_counts
C25_Witness ==
    /\ Held
    /\ transcription = result.value
    /\ transcription.total_segments = 3
    /\ transcription.total_speakers = 2
    /\ last # None
    /\ Val(last).op = "get_segments_by_speaker"
    /\ Len(Val(last).value) = 2

\* s is t without its leading and trailing whitespace
StrippedOf(s, t) ==
    /\ s = <<>> \/ (Head(s) \notin Whitespace /\ s[Len(s)] \notin Whitespace)
    /\ \E i \in 1..(Len(t) + 1), j \in 0..Len(t) :
          /\ s = SubSeq(t, i, j)
          /\ \A k \in 1..Len(t) : (k < i \/ k > j) => t[k] \in Whitespace

\* C26: when the caller supplies a custom prompt, the prompt sent to the model
\* is that custom prompt and the default instruction and its timecode format
\* are not used; when none is supplied, the default instruction with the
\* selected timecode format is sent; in both cases exactly one prompt
\* accompanies the video part in the request
C26_PromptSelection ==
    /\ calls > 0 => prompt # None
    /\ prompt # None =>
          /\ video_part # None
          /\ Len(prompt) = 1
          /\ IF custom_prompt # None
             THEN /\ StrippedOf(Val(prompt), Val(custom_prompt))
                  /\ timecode_format = None
             ELSE /\ timecode_format # None
                  /\ StrippedOf(Val(prompt),
                                get_transcription_prompt(Val(timecode_format)))

\* the sampling rate is outside 0.1 .. 24.0 (in tenths)
FpsOutOfRange == fps # None /\ (Val(fps) < MIN_FPS \/ Val(fps) > MAX_FPS)

\* the invocation ended at the capability check: the empty aggregate was
\* returned without a video part
RefusedEmpty == pc = "done" /\ video_part = None /\ result = Returned(EmptyTranscription)

\* C27: the sampling-rate check comes before the capability check: a request
\* with an out-of-range sampling rate and an unsupported video reference raises
\* the configuration error rather than returning an empty aggregate, and in
\* both failing cases no remote call is made
C27_FpsCheckFirst ==
    /\ (pc = "done" /\ FpsOutOfRange /\ Unsupported(vertexai, video_uri))
          => FpsRejected /\ ~RefusedEmpty
    /\ FpsRejected => pc = "done" /\ video_part = None /\ calls = 0
    /\ RefusedEmpty => calls = 0

\* a wait is served only between two calls: after a failed attempt that is
\* not the 7th, and never once the loop has been left
WaitsOnlyBetweenCalls ==
    /\ waits' # waits =>
          /\ waits' = waits + 1
          /\ pc = "sleep" /\ pc' = "attempt"
          /\ calls < 7
          /\ LastAttemptFailed /\ TransientError(LastError)
    /\ pc \in {"parse", "done"} => waits' = waits /\ slept' = slept
    /\ (pc = "in_flight" /\ pc' # "sleep") => pc' \in {"parse", "done"}
    /\ (pc = "in_flight" /\ calls = 7) => pc' \in {"parse", "done"}

\* C28: no backoff wait follows the last remote call of an invocation: after
\* a success, a non-retryable error and the 7th failed attempt the invocation
\* ends without waiting, so an exhausted invocation waits exactly 6 times for
\* 10 + 11 + 12 + 13 + 14 + 15 = 75 seconds, and an invocation that has ended
\* after at least one call has waited once less than it has called
C28_NoWaitAfterLastCall ==
    /\ [](/\ (pc \in {"parse", "done"} /\ calls >= 1) => waits = calls - 1
          /\ calls = 0 => waits = 0
          /\ (pc = "done" /\ calls = 7 /\ result.kind = "raised"
                /\ TransientError(result.error))
                => waits = 6 /\ slept = 10 + 11 + 12 + 13 + 14 + 15 /\ slept = 75)
    /\ [][WaitsOnlyBetweenCalls]_vars

\* an exhausted invocation: seven calls, six waits, 75 seconds
C28_Witness ==
    /\ pc = "done"
    /\ calls = 7 /\ waits = 6 /\ slept = 75
    /\ result.kind = "raised" /\ TransientError(result.error)

\* the retry loop has ended with an error
LoopEndedWithError == pc = "done" /\ calls >= 1 /\ result.kind = "raised"

\* parsing starts only from a call that has just returned, and an aggregate
\* is returned after a call only by parsing its response
ParsingFollowsSuccess ==
    /\ (pc' = "parse" /\ pc # "parse") =>
          /\ pc = "in_flight"
          /\ response = None /\ response' # None
          /\ ~Val(outcome').failed
    /\ (pc = "parse" /\ pc' # "parse") =>
          /\ pc' = "done"
          /\ response' = response
          /\ result' = Returned(_parse_response(Val(response)))
    /\ (calls >= 1 /\ result.kind # "returned" /\ result'.kind = "returned") => pc = "parse"
    /\ LoopEndedWithError => pc' = "done" /\ result' = result

\* C29: response parsing is reached only after a remote call has returned
\* successfully: the response handed to _parse_response is never absent and is
\* the response of the last and only successful attempt, and whenever the
\* retry loop ends with an error no parsing happens and no aggregate is
\* returned
C29_ParseOnlyAfterSuccess ==
    /\ [](/\ pc = "parse" =>
                /\ response # None
                /\ Val(response).attempt = calls
                /\ outcome # None /\ ~Val(outcome).failed
          /\ response # None =>
                /\ pc \in {"parse", "done"}
                /\ Val(response).attempt = calls
                /\ result.kind # "raised"
          /\ LoopEndedWithError =>
                /\ response = None
                /\ LastAttemptFailed /\ result.error = LastError)
    /\ [][ParsingFollowsSuccess]_vars

\* the third call returned after two failed ones and its response is about
\* to be parsed
C29_Witness ==
    /\ pc = "parse"
    /\ calls = 3 /\ waits = 2
    /\ response # None /\ Val(response).attempt = 3
    /\ Val(response).parsed.type = "VideoTranscription"
    /\ result = Pending

\* C30: every consumer resolves a segment's speaker the same way: for every
\* aggregate, one where several speakers share a voice_id included, and every
\* segment, the speaker display_script_segments labels the segment with is the
\* one get_speaker_by_voice_id returns for the segment's voice_id, which is
\* the one export_to_csv joins to it
C30_SameSpeakerEverywhere ==
    (last # None /\ Val(last).op = "display_script_segments") =>
        LET rows == Val(last).value.segments
            segs == transcription.script_segments
        IN /\ Len(rows) = Len(segs)
           /\ \A i \in 1..Len(rows) :
                 /\ rows[i].speaker = get_speaker_by_voice_id(transcription, segs[i].voice_id)
                 /\ speaker_columns(rows[i].speaker).speaker_name
                       = export_to_csv(transcription).segments[i].speaker_name

=============================================================================
